---- MODULE Spec2Model ----
(***************************************************************************)
(* Model of Documenter (src/src/documenter.ts): the documentThis command   *)
(* locates the documentable declaration at the caret, dispatches on its    *)
(* syntax kind to one kind emitter, and either inserts the snippet built   *)
(* by the emitter or shows a failure message.                              *)
(*                                                                         *)
(* A syntax node is a record of the fields the emitters read.  The tree    *)
(* around the caret is the chain of nodes from the source file down to the *)
(* innermost node at the caret (node.parent is the previous element); the  *)
(* children of a variable declaration and the members of a class are kept  *)
(* on the node.  Texts are sequences of string pieces, so that a template  *)
(* string is the concatenation of its pieces.                              *)
(***************************************************************************)
EXTENDS Integers, Sequences, FiniteSets, TLC

VARIABLES
    path,              \* source file .. innermost node at the caret
    includeTypesOpt,   \* configuration docthis.includeTypes
    includeAuthorTag,  \* configuration docthis.includeAuthorTag
    commandName,       \* argument of documentThis
    forCompletion,     \* argument of documentThis
    pc,                \* "ready", "done" or "threw" (uncaught TypeError)
    sb,                \* fragments appended to the SnippetStringBuilder
    documented,        \* the node whose kind emitter produced the output
    calls,             \* children dispatched by _emitVariableDeclaration
    messages,          \* error messages shown
    insertions         \* snippets handed to editor.insertSnippet

vars == <<path, includeTypesOpt, includeAuthorTag, commandName, forCompletion, pc, sb, documented, calls, messages, insertions>>

(***************************************************************************)
(* Bounds of the inputs.                                                   *)
(***************************************************************************)
MaxModifiers == 2
MaxParameters == 2
MaxTypeParameters == 2
MaxHeritage == 2
MaxStatements == 2
MaxMembers == 2

(***************************************************************************)
(* Absent values.  An absent name or type annotation is the empty text, an *)
(* absent list is the empty sequence, an absent location has line -1.      *)
(***************************************************************************)
NoName == ""
NoType == ""
NoLocation == [line |-> 0 - 1, character |-> 0 - 1]
authorName == "Jane"

FunctionKinds == {"FunctionExpression", "ArrowFunction"}
MethodKinds == {"FunctionDeclaration", "MethodDeclaration", "MethodSignature"}
PropertyKinds == {"PropertyDeclaration", "PropertySignature", "GetAccessor", "SetAccessor"}

\* utils.supportedNodeKinds: the documentable kinds
supportedNodeKinds == {"ClassDeclaration", "InterfaceDeclaration", "EnumDeclaration", "EnumMember", "Constructor", "VariableDeclaration"} \cup PropertyKinds \cup MethodKinds \cup FunctionKinds

Node(kind, start) == [kind |-> kind, start |-> start, name |-> NoName, identifiers |-> <<>>, modifiers |-> <<>>, typeParameters |-> <<>>, parameters |-> <<>>, type |-> NoType, heritageClauses |-> <<>>, members |-> <<>>, children |-> <<>>, body |-> <<>>]

NoNode == Node("None", 0)

(***************************************************************************)
(* utils.SnippetStringBuilder: an ordered list of fragments.               *)
(***************************************************************************)
append(b, text) == Append(b, [t |-> "text", s |-> text])

appendLine(b, text) == Append(b, [t |-> "line", s |-> text])

appendSnippetTabstop(b) == Append(b, [t |-> "tabstop", s |-> <<>>])

appendSnippetPlaceholder(b, text) == Append(b, [t |-> "placeholder", s |-> text])

(***************************************************************************)
(* The source file's line table and ts.getLineAndCharacterOfPosition.      *)
(***************************************************************************)
LineStarts == <<0, 3, 8, 10>>

getLineAndCharacterOfPosition(pos) ==
    LET l == CHOOSE i \in 1..Len(LineStarts) : LineStarts[i] <= pos /\ (i = Len(LineStarts) \/ LineStarts[i + 1] > pos)
    IN [line |-> l - 1, character |-> pos - LineStarts[l]]

(***************************************************************************)
(* utils: tree navigation.                                                 *)
(***************************************************************************)
nodeIsOfKind(node, kinds) == node.kind \in kinds

\* the nearest proper ancestor of one of the kinds, for the node whose chain
\* of ancestors is `ancestors`: its index in the chain, 0 when there is none
RECURSIVE findFirstParent(_, _)
findFirstParent(ancestors, kinds) ==
    IF ancestors = <<>> THEN 0
    ELSE IF nodeIsOfKind(ancestors[Len(ancestors)], kinds) THEN Len(ancestors)
    ELSE findFirstParent(SubSeq(ancestors, 1, Len(ancestors) - 1), kinds)

\* the first Identifier of the node's subtree in depth-first pre-order
findFirstChildOfKindDepthFirst(node) == node.identifiers[1]

\* a return statement with a value in the body, nested functions skipped
RECURSIVE findNonVoidReturnInCurrentScope(_)
findNonVoidReturnInCurrentScope(stmts) ==
    \E i \in 1..Len(stmts) :
        \/ stmts[i].kind = "ReturnStatement" /\ stmts[i].value
        \/ stmts[i].kind = "Block" /\ findNonVoidReturnInCurrentScope(stmts[i].inner)

(***************************************************************************)
(* Shared fragment emitters.                                               *)
(***************************************************************************)
_emitDescriptionHeader(b) == appendLine(appendSnippetTabstop(appendLine(appendLine(b, <<>>), <<>>)), <<>>)

_emitAuthor(b) ==
    IF includeAuthorTag
    THEN appendLine(appendSnippetTabstop(append(append(b, <<"Author: ", authorName>>), <<>>)), <<>>)
    ELSE b

ModifierTag(kind) ==
    CASE kind = "ExportKeyword" -> <<"@export">>
      [] kind = "AbstractKeyword" -> <<"@abstract">>
      [] kind = "ProtectedKeyword" -> <<"@protected">>
      [] kind = "PrivateKeyword" -> <<"@private">>
      [] kind = "StaticKeyword" -> <<"@static">>
      [] OTHER -> <<>>

RECURSIVE _emitModifiersFrom(_, _, _)
_emitModifiersFrom(b, modifiers, i) ==
    IF i > Len(modifiers) THEN b
    ELSE IF ModifierTag(modifiers[i]) # <<>>
    THEN _emitModifiersFrom(appendLine(b, ModifierTag(modifiers[i])), modifiers, i + 1)
    ELSE _emitModifiersFrom(b, modifiers, i + 1)

\* a slip: the loop ends at the first modifier without a tag
RECURSIVE _emitModifiersUntil(_, _, _)
_emitModifiersUntil(b, modifiers, i) ==
    IF i > Len(modifiers) \/ ModifierTag(modifiers[i]) = <<>> THEN b
    ELSE _emitModifiersUntil(appendLine(b, ModifierTag(modifiers[i])), modifiers, i + 1)

_emitModifiers_stops(b, node) == _emitModifiersUntil(b, node.modifiers, 1)

_emitModifiers(b, node) == _emitModifiersFrom(b, node.modifiers, 1)

RECURSIVE _emitTypeParametersFrom(_, _, _)
_emitTypeParametersFrom(b, tps, i) ==
    IF i > Len(tps) THEN b
    ELSE _emitTypeParametersFrom(appendLine(appendSnippetTabstop(append(b, <<"@template ", tps[i], " ">>)), <<>>), tps, i + 1)

_emitTypeParameters(b, node) == _emitTypeParametersFrom(b, node.typeParameters, 1)

\* t.expression.getText() followed by the joined type arguments
RECURSIVE JoinTypeArguments(_, _)
JoinTypeArguments(args, i) ==
    IF i > Len(args) THEN <<>>
    ELSE (IF i > 1 THEN <<", ">> ELSE <<>>) \o <<args[i]>> \o JoinTypeArguments(args, i + 1)

HeritageTypeName(t) ==
    IF t.typeArguments # <<>>
    THEN <<t.expression, "<">> \o JoinTypeArguments(t.typeArguments, 1) \o <<">">>
    ELSE <<t.expression>>

\* utils.formatTypeName: a string transform kept uninterpreted
formatTypeName(tn) == <<"formatTypeName(">> \o tn \o <<")">>

RECURSIVE _emitHeritageTypes(_, _, _, _)
_emitHeritageTypes(b, heritageType, types, i) ==
    IF i > Len(types) THEN b
    ELSE _emitHeritageTypes(appendLine(append(b, <<heritageType, " ">> \o formatTypeName(HeritageTypeName(types[i]))), <<>>), heritageType, types, i + 1)

RECURSIVE _emitHeritageFrom(_, _, _)
_emitHeritageFrom(b, clauses, i) ==
    IF i > Len(clauses) THEN b
    ELSE _emitHeritageFrom(_emitHeritageTypes(b, IF clauses[i].token = "ExtendsKeyword" THEN "@extends" ELSE "@implements", clauses[i].types, 1), clauses, i + 1)

includeTypes == includeTypesOpt

\* a slip: the option is not read
_emitHeritageClauses_ungated(b, node) ==
    IF node.heritageClauses = <<>> THEN b
    ELSE _emitHeritageFrom(b, node.heritageClauses, 1)

_emitHeritageClauses(b, node) ==
    IF node.heritageClauses = <<>> \/ ~includeTypes THEN b
    ELSE _emitHeritageFrom(b, node.heritageClauses, 1)

RECURSIVE _emitParametersFrom(_, _, _)
_emitParametersFrom(b, ps, i) ==
    IF i > Len(ps) THEN b
    ELSE _emitParametersFrom(appendLine(appendSnippetTabstop(append(append(append(b, <<"\t- ">>), <<ps[i]>>), <<" - ">>)), <<>>), ps, i + 1)

\* a slip: the header is written before the parameters are counted
_emitParameters_header(b, node) == _emitParametersFrom(appendLine(appendLine(b, <<>>), <<"Parameters:">>), node.parameters, 1)

_emitParameters(b, node) ==
    IF node.parameters = <<>> THEN b
    ELSE _emitParametersFrom(appendLine(appendLine(b, <<>>), <<"Parameters:">>), node.parameters, 1)

\* a slip: any return-type annotation counts, void included
_emitReturns_void(b, node) ==
    IF findNonVoidReturnInCurrentScope(node.body) \/ node.type # NoType
    THEN appendLine(appendSnippetTabstop(append(appendLine(appendLine(b, <<>>), <<"Returns:">>), <<"\t">>)), <<>>)
    ELSE b

_emitReturns(b, node) ==
    IF findNonVoidReturnInCurrentScope(node.body) \/ (node.type # NoType /\ node.type # "void")
    THEN appendLine(appendSnippetTabstop(append(appendLine(appendLine(b, <<>>), <<"Returns:">>), <<"\t">>)), <<>>)
    ELSE b

(***************************************************************************)
(* Kind emitters.  An emitter that can dereference an absent name returns  *)
(* [b, threw]; the others return the builder.                              *)
(***************************************************************************)
Front(s) == SubSeq(s, 1, Len(s) - 1)

Last(s) == s[Len(s)]

_emitClassDeclaration(b, node) ==
    LET b1 == append(b, <<"Class:">>)
        b2 == IF node.name # NoName THEN append(b1, <<" ", node.name>>) ELSE b1
    IN _emitTypeParameters(_emitHeritageClauses(_emitModifiers(_emitAuthor(_emitDescriptionHeader(b2)), node), node), node)

\* a slip: the member's kind is not compared
hasSetter_anyKind(node, parentClass) ==
    \E i \in 1..Len(parentClass.members) :
        findFirstChildOfKindDepthFirst(parentClass.members[i]) = findFirstChildOfKindDepthFirst(node)

hasSetter(node, parentClass) ==
    \E i \in 1..Len(parentClass.members) :
        /\ parentClass.members[i].kind = "SetAccessor"
        /\ findFirstChildOfKindDepthFirst(parentClass.members[i]) = findFirstChildOfKindDepthFirst(node)

_emitPropertyDeclaration(b, node, parentClass) ==
    LET b1 == append(b, <<"Property:">>)
        b2 == IF node.name # NoName THEN append(b1, <<" ", node.name>>) ELSE b1
        b3 == _emitDescriptionHeader(b2)
        b4 == IF node.kind = "GetAccessor" /\ ~hasSetter(node, parentClass) THEN appendLine(b3, <<"@readonly">>) ELSE b3
    IN _emitModifiers(b4, node)

_emitInterfaceDeclaration(b, node) ==
    LET b1 == _emitModifiers(_emitAuthor(_emitDescriptionHeader(b)), node)
        b2 == appendLine(b1, <<"@interface ", node.name>>)
    IN _emitTypeParameters(_emitHeritageClauses(b2, node), node)

_emitEnumDeclaration(b, node) == appendLine(_emitModifiers(_emitDescriptionHeader(b), node), <<"@enum {number}">>)

\* node.name.getText() throws a TypeError when the declaration has no name
_emitFunctionName(b, node) ==
    IF node.name = NoName THEN [b |-> b, threw |-> TRUE]
    ELSE [b |-> append(b, <<"Function: ", node.name>>), threw |-> FALSE]

\* a slip: the author line is written above the description
_emitMethodDeclaration_author(b, node) ==
    LET r == _emitFunctionName(b, node)
    IN IF r.threw THEN r
       ELSE [b |-> _emitReturns(_emitParameters(_emitTypeParameters(_emitModifiers(_emitDescriptionHeader(_emitAuthor(r.b)), node), node), node), node), threw |-> FALSE]

_emitMethodDeclaration(b, node) ==
    LET r == _emitFunctionName(b, node)
    IN IF r.threw THEN r
       ELSE [b |-> _emitReturns(_emitParameters(_emitTypeParameters(_emitModifiers(_emitAuthor(_emitDescriptionHeader(r.b)), node), node), node), node), threw |-> FALSE]

\* node.parent.name.getText() throws a TypeError when the class has no name
_emitConstructorDeclaration(b, node, parentClass) ==
    IF parentClass.name = NoName THEN [b |-> b, threw |-> TRUE]
    ELSE [b |-> _emitParameters(_emitAuthor(appendLine(appendSnippetPlaceholder(b, <<"Creates an instance of ", parentClass.name, ".">>), <<>>)), node), threw |-> FALSE]

\* the node the comment goes above: the parent, or the variable declaration
\* (list) above the parent; its index in `ancestors`, 0 when there is none
\* a slip: a property assignment is not among the parents kept as the target
targetNode_assignment(ancestors) ==
    IF Last(ancestors).kind \notin {"BinaryExpression", "PropertyDeclaration"}
    THEN findFirstParent(Front(ancestors), {"VariableDeclarationList", "VariableDeclaration"})
    ELSE Len(ancestors)

targetNode(ancestors) ==
    IF Last(ancestors).kind \notin {"PropertyAssignment", "BinaryExpression", "PropertyDeclaration"}
    THEN findFirstParent(Front(ancestors), {"VariableDeclarationList", "VariableDeclaration"})
    ELSE Len(ancestors)

_emitFunctionExpression(b, node, ancestors) ==
    IF targetNode(ancestors) = 0
    THEN [b |-> b, loc |-> NoLocation, threw |-> FALSE, doc |-> NoNode, calls |-> <<>>]
    ELSE [b |-> _emitReturns(_emitParameters(_emitTypeParameters(_emitDescriptionHeader(b), node), node), node),
          loc |-> getLineAndCharacterOfPosition(ancestors[targetNode(ancestors)].start),
          threw |-> FALSE, doc |-> node, calls |-> <<>>]

\* the result of a kind emitter that returns nothing: the node's own start
OwnStart(r, node) == [b |-> r.b, loc |-> IF r.threw THEN NoLocation ELSE getLineAndCharacterOfPosition(node.start), threw |-> r.threw, doc |-> IF r.threw THEN NoNode ELSE node, calls |-> <<>>]

Emitted(b) == [b |-> b, threw |-> FALSE]

\* a slip: the default case falls into the enum member's
Undocumented_line(b) == [b |-> appendLine(b, <<>>), loc |-> NoLocation, threw |-> FALSE, doc |-> NoNode, calls |-> <<>>]

\* the default case: nothing is appended and no location is returned
Undocumented(b) == [b |-> b, loc |-> NoLocation, threw |-> FALSE, doc |-> NoNode, calls |-> <<>>]

RECURSIVE _documentNode(_, _, _)
RECURSIVE _emitVariableDeclaration(_, _, _, _, _)
_documentNode(b, node, ancestors) ==
    CASE node.kind = "ClassDeclaration" -> OwnStart(Emitted(_emitClassDeclaration(b, node)), node)
      [] node.kind \in PropertyKinds -> OwnStart(Emitted(_emitPropertyDeclaration(b, node, Last(ancestors))), node)
      [] node.kind = "InterfaceDeclaration" -> OwnStart(Emitted(_emitInterfaceDeclaration(b, node)), node)
      [] node.kind = "EnumDeclaration" -> OwnStart(Emitted(_emitEnumDeclaration(b, node)), node)
      [] node.kind = "EnumMember" -> OwnStart(Emitted(appendLine(b, <<>>)), node)
      [] node.kind \in MethodKinds -> OwnStart(_emitMethodDeclaration(b, node), node)
      [] node.kind = "Constructor" -> OwnStart(_emitConstructorDeclaration(b, node, Last(ancestors)), node)
      [] node.kind \in FunctionKinds -> _emitFunctionExpression(b, node, ancestors)
      [] node.kind = "VariableDeclaration" -> _emitVariableDeclaration(b, node, ancestors, 1, <<>>)
      [] OTHER -> Undocumented(b)

\* the loop over node.getChildren(), from child i on; `log` records each
\* child dispatched with the builder's length before and after
_emitVariableDeclaration(b, node, ancestors, i, log) ==
    IF i > Len(node.children)
    THEN [b |-> b, loc |-> NoLocation, threw |-> FALSE, doc |-> NoNode, calls |-> log]
    ELSE LET result == _documentNode(b, node.children[i], Append(ancestors, node))
             entry == [child |-> i, kind |-> node.children[i].kind, loc |-> result.loc, before |-> Len(b), after |-> Len(result.b)]
         IN IF result.threw \/ result.loc # NoLocation
            THEN [result EXCEPT !.calls = Append(log, entry)]
            ELSE _emitVariableDeclaration(result.b, node, ancestors, i + 1, Append(log, entry))

(***************************************************************************)
(* The inputs: declarations, the trees around them and the caret.          *)
(***************************************************************************)
SeqsUpTo(S, n) == UNION {[1..k -> S] : k \in 0..n}

ModifierKinds == {"ExportKeyword", "AbstractKeyword", "ProtectedKeyword", "PrivateKeyword", "StaticKeyword", "AsyncKeyword"}

ModifierLists == SeqsUpTo(ModifierKinds, MaxModifiers)

TypeParameterLists == SeqsUpTo({"T", "U"}, MaxTypeParameters)

ParameterLists == SeqsUpTo({"a", "{ b, c }"}, MaxParameters)

HeritageType(expression, typeArguments) == [expression |-> expression, typeArguments |-> typeArguments]

HeritageClauses == {[token |-> "ExtendsKeyword", types |-> <<HeritageType("Bar", <<>>)>>], [token |-> "ImplementsKeyword", types |-> <<HeritageType("Baz", <<"string">>)>>], [token |-> "ImplementsKeyword", types |-> <<HeritageType("Bar", <<>>), HeritageType("Map", <<"K", "V">>)>>]}

HeritageLists == SeqsUpTo(HeritageClauses, MaxHeritage)

Statement(kind, value, inner) == [kind |-> kind, value |-> value, inner |-> inner]

ReturnValue == Statement("ReturnStatement", TRUE, <<>>)

ReturnEmpty == Statement("ReturnStatement", FALSE, <<>>)

Statements == {ReturnValue, ReturnEmpty, Statement("ExpressionStatement", FALSE, <<>>), Statement("Block", FALSE, <<ReturnValue>>), Statement("FunctionDeclaration", FALSE, <<ReturnValue>>), Statement("Block", FALSE, <<Statement("ArrowFunction", FALSE, <<ReturnValue>>)>>)}

Bodies == SeqsUpTo(Statements, MaxStatements)

TypeTexts == {NoType, "void", "number"}

\* what a class member shows to the setter lookup: its kind and the
\* identifiers of its subtree (a decorator's identifier precedes the name)
Member(kind, identifiers) == [kind |-> kind, identifiers |-> identifiers]

IdentifierLists == {<<"value">>, <<"other">>, <<"dec", "value">>}

Members == {Member(k, ids) : k \in {"SetAccessor", "MethodDeclaration"}, ids \in IdentifierLists}

MemberLists == SeqsUpTo(Members, MaxMembers)

HasModifiers(kind) == kind \in {"ClassDeclaration", "InterfaceDeclaration", "EnumDeclaration"} \cup PropertyKinds \cup MethodKinds

HasTypeParameters(kind) == kind \in {"ClassDeclaration", "InterfaceDeclaration"} \cup MethodKinds \cup FunctionKinds

HasHeritage(kind) == kind \in {"ClassDeclaration", "InterfaceDeclaration"}

IsCallable(kind) == kind \in MethodKinds \cup FunctionKinds \cup {"Constructor"}

HasBody(kind) == IsCallable(kind) /\ kind # "MethodSignature"

\* a declaration of the kind with every list empty (bare) or every list the
\* kind can carry holding one element (rich)
Plain(kind, rich) ==
    [Node(kind, 0) EXCEPT
        !.name = IF kind \in FunctionKinds \cup {"Constructor"} THEN NoName ELSE "foo",
        !.identifiers = IF kind \in FunctionKinds \cup {"Constructor"} THEN <<>> ELSE <<"foo">>,
        !.modifiers = IF rich /\ HasModifiers(kind) THEN <<"ExportKeyword">> ELSE <<>>,
        !.typeParameters = IF rich /\ HasTypeParameters(kind) THEN <<"T">> ELSE <<>>,
        !.parameters = IF rich /\ IsCallable(kind) THEN <<"a">> ELSE <<>>,
        !.type = IF rich /\ IsCallable(kind) /\ kind # "Constructor" THEN "number" ELSE NoType,
        !.heritageClauses = IF rich /\ HasHeritage(kind) THEN <<[token |-> "ExtendsKeyword", types |-> <<HeritageType("Bar", <<>>)>>]>> ELSE <<>>,
        !.body = IF rich /\ HasBody(kind) THEN <<ReturnValue>> ELSE <<>>]

PlainDecls(kind) == {Plain(kind, rich) : rich \in BOOLEAN}

\* the declarations of a kind: one list swept over its whole range at a time
Decls(kind) ==
    PlainDecls(kind)
    \cup (IF HasModifiers(kind) THEN {[d EXCEPT !.modifiers = m] : d \in PlainDecls(kind), m \in ModifierLists} ELSE {})
    \cup (IF HasTypeParameters(kind) THEN {[d EXCEPT !.typeParameters = t] : d \in PlainDecls(kind), t \in TypeParameterLists} ELSE {})
    \cup (IF HasHeritage(kind) THEN {[d EXCEPT !.heritageClauses = h, !.typeParameters = t] : d \in PlainDecls(kind), h \in HeritageLists, t \in {<<>>, <<"T">>}} ELSE {})
    \cup (IF IsCallable(kind) THEN {[d EXCEPT !.parameters = ps] : d \in PlainDecls(kind), ps \in ParameterLists} ELSE {})
    \cup (IF HasBody(kind) THEN {[Plain(kind, FALSE) EXCEPT !.body = b, !.type = t] : b \in Bodies, t \in TypeTexts} ELSE {})
    \cup (IF kind = "MethodSignature" THEN {[d EXCEPT !.type = t] : d \in PlainDecls(kind), t \in TypeTexts} ELSE {})

\* an accessor named by the last of the identifiers of its subtree
Accessors(kind) == {[Plain(kind, FALSE) EXCEPT !.name = Last(ids), !.identifiers = ids] : ids \in IdentifierLists}

\* a class or function declaration without a name (export default)
Anonymous(kind) == {[d EXCEPT !.name = NoName, !.identifiers = <<>>] : d \in PlainDecls(kind)}

At(node, start) == [node EXCEPT !.start = start]

SourceFile == Node("SourceFile", 0)

\* a class, interface or enum around a member
Parent(kind, name, members) == [Node(kind, 3) EXCEPT !.name = name, !.identifiers = IF name = NoName THEN <<>> ELSE <<name>>, !.members = members]

\* the chains of ancestors a declaration can stand under, each with the
\* declaration placed at its start offset
ClassMemberChain(d, name, siblings) == <<SourceFile, Parent("ClassDeclaration", name, <<Member(d.kind, d.identifiers)>> \o siblings), At(d, 5)>>

\* an accessor among each list of sibling members
AccessorChains == {ClassMemberChain(d, "Foo", ms) : d \in Accessors("GetAccessor"), ms \in MemberLists} \cup {ClassMemberChain(d, "Foo", ms) : d \in Accessors("SetAccessor") \cup PlainDecls("PropertyDeclaration"), ms \in SeqsUpTo(Members, 1)}

\* a constructor in a class with or without a name
ConstructorChains(ds) == {ClassMemberChain(d, n, <<>>) : d \in ds, n \in {"Foo", NoName}}

VariableStatementChain(children) == <<SourceFile, Node("VariableStatement", 3), Node("VariableDeclarationList", 3), [Node("VariableDeclaration", 5) EXCEPT !.name = "f", !.children = children]>>

Initialized(initializer) == <<Node("Identifier", 5), Node("EqualsToken", 6), initializer>>

\* the places a function expression or arrow function can stand in
FunctionChains(d) ==
    {VariableStatementChain(Initialized(At(d, 8))) \o <<At(d, 8)>>,
     VariableStatementChain(<<Node("Identifier", 5), Node("ColonToken", 6), Node("FunctionType", 7), Node("EqualsToken", 8), At(d, 9)>>) \o <<At(d, 9)>>,
     <<SourceFile, Node("ExpressionStatement", 3), Node("BinaryExpression", 3), At(d, 5)>>,
     <<SourceFile, Node("ExpressionStatement", 3), Node("BinaryExpression", 3), Node("BinaryExpression", 5), At(d, 5)>>,
     VariableStatementChain(Initialized(Node("ObjectLiteralExpression", 8))) \o <<Node("ObjectLiteralExpression", 8), Node("PropertyAssignment", 9), At(d, 11)>>,
     <<SourceFile, Node("ExpressionStatement", 3), Node("CallExpression", 3), Node("ObjectLiteralExpression", 4), Node("PropertyAssignment", 5), At(d, 8)>>,
     <<SourceFile, Parent("ClassDeclaration", "Foo", <<Member("PropertyDeclaration", <<"handler">>)>>), [Node("PropertyDeclaration", 5) EXCEPT !.name = "handler", !.identifiers = <<"handler">>], At(d, 9)>>,
     <<SourceFile, Node("ExpressionStatement", 3), Node("CallExpression", 3), At(d, 5)>>,
     VariableStatementChain(Initialized(Node("CallExpression", 8))) \o <<Node("CallExpression", 8), At(d, 10)>>,
     <<SourceFile, Parent("ClassDeclaration", "Foo", <<Member("MethodDeclaration", <<"foo">>)>>), At(Plain("MethodDeclaration", TRUE), 5), Node("Block", 6), Node("ExpressionStatement", 7), Node("CallExpression", 7), At(d, 9)>>}

TopLevelChains(d) == {<<SourceFile, At(d, 3)>>, <<SourceFile, Node("ModuleDeclaration", 3), Node("ModuleBlock", 4), At(d, 5)>>}

\* the chain a declaration of the kind usually stands under
Chain(d) ==
    IF d.kind \in {"ClassDeclaration", "InterfaceDeclaration", "EnumDeclaration", "FunctionDeclaration"} THEN <<SourceFile, At(d, 3)>>
    ELSE IF d.kind \in {"PropertyDeclaration", "GetAccessor", "SetAccessor", "MethodDeclaration", "Constructor"} THEN ClassMemberChain(d, "Foo", <<>>)
    ELSE IF d.kind \in {"PropertySignature", "MethodSignature"} THEN <<SourceFile, Parent("InterfaceDeclaration", "Foo", <<Member(d.kind, d.identifiers)>>), At(d, 5)>>
    ELSE IF d.kind = "EnumMember" THEN <<SourceFile, Parent("EnumDeclaration", "Foo", <<Member(d.kind, d.identifiers)>>), At(d, 5)>>
    ELSE VariableStatementChain(Initialized(At(d, 8))) \o <<At(d, 8)>>

\* the caret on the declaration itself, or on a token one or two levels
\* below it that is not documentable
Carets(chain) == {chain, chain \o <<Node("Identifier", Last(chain).start)>>, chain \o <<Node("Block", Last(chain).start + 1), Node("ReturnStatement", Last(chain).start + 2)>>}

DeclarationKinds == supportedNodeKinds \ {"VariableDeclaration"}

\* the caret on the name of a variable declaration
VariableChildren == {<<Node("Identifier", 5)>>, Initialized(Node("NumericLiteral", 8)), Initialized(Node("ClassExpression", 8)), Initialized(Node("ObjectLiteralExpression", 8)), <<Node("ObjectBindingPattern", 5), Node("EqualsToken", 7), Node("Identifier", 8)>>, <<Node("Identifier", 5), Node("ColonToken", 6), Node("TypeReference", 7)>>} \cup {Initialized(At(d, 8)) : d \in PlainDecls("FunctionExpression") \cup PlainDecls("ArrowFunction")} \cup {<<Node("Identifier", 5), Node("ColonToken", 6), Node("FunctionType", 7), Node("EqualsToken", 8), At(d, 9)>> : d \in PlainDecls("FunctionExpression") \cup PlainDecls("ArrowFunction")}

VariablePaths == UNION {{VariableStatementChain(c), VariableStatementChain(c) \o <<c[1]>>} : c \in VariableChildren}

\* the caret where nothing documentable encloses it
UndocumentablePaths == {<<SourceFile>>, <<SourceFile, Node("ExpressionStatement", 3), Node("StringLiteral", 3)>>, <<SourceFile, Node("ImportDeclaration", 3), Node("StringLiteral", 8)>>, <<SourceFile, Node("ExpressionStatement", 3), Node("CallExpression", 3), Node("Identifier", 3)>>}

SweepPaths == {Chain(d) : d \in UNION {Decls(k) : k \in DeclarationKinds}} \cup AccessorChains \cup VariablePaths

PlainChains == {Chain(d) : d \in UNION {PlainDecls(k) : k \in DeclarationKinds}} \cup UNION {TopLevelChains(d) : d \in UNION {PlainDecls(k) \cup Anonymous(k) : k \in {"ClassDeclaration", "FunctionDeclaration"}}} \cup ConstructorChains(PlainDecls("Constructor")) \cup UNION {FunctionChains(d) : d \in PlainDecls("FunctionExpression") \cup PlainDecls("ArrowFunction")}

PlainPaths == UNION {Carets(c) : c \in PlainChains} \cup UndocumentablePaths

CommandNames == {"Document This", "Document Everything"}

(***************************************************************************)
(* The command.                                                            *)
(***************************************************************************)
Init ==
    /\ \/ path \in SweepPaths /\ commandName = "Document This" /\ forCompletion = FALSE
       \/ path \in PlainPaths /\ commandName \in CommandNames /\ forCompletion \in BOOLEAN
    /\ includeTypesOpt \in BOOLEAN
    /\ includeAuthorTag \in BOOLEAN
    /\ pc = "ready"
    /\ sb = <<>>
    /\ documented = NoNode
    /\ calls = <<>>
    /\ messages = <<>>
    /\ insertions = <<>>

_showFailureMessage(name, condition) == <<"Sorry! '", name, "' wasn't able to produce documentation ", condition, ".">>

\* sb.toCommentValue() is kept as the fragments; the range starts one line
\* up when the comment completes a typed comment opener
_insertDocumentation(b, location) ==
    [value |-> b,
     range |-> [start |-> [line |-> IF forCompletion THEN location.line - 1 ELSE location.line, character |-> location.character],
                end |-> [line |-> location.line, character |-> location.character]]]

\* the documentable node for the innermost node at the caret: its index in
\* the chain, 0 when there is none
documentNode(chain) ==
    IF nodeIsOfKind(Last(chain), supportedNodeKinds) THEN Len(chain)
    ELSE findFirstParent(Front(chain), supportedNodeKinds)

documentThis ==
    /\ pc = "ready"
    /\ IF documentNode(path) = 0
       THEN /\ messages' = Append(messages, _showFailureMessage(commandName, "at the current position"))
            /\ pc' = "done"
            /\ UNCHANGED <<sb, documented, calls, insertions>>
       ELSE LET r == _documentNode(<<>>, path[documentNode(path)], SubSeq(path, 1, documentNode(path) - 1))
            IN /\ sb' = r.b
               /\ documented' = r.doc
               /\ calls' = r.calls
               /\ pc' = IF r.threw THEN "threw" ELSE "done"
               /\ insertions' = IF ~r.threw /\ r.loc # NoLocation THEN Append(insertions, _insertDocumentation(r.b, r.loc)) ELSE insertions
               /\ messages' = IF ~r.threw /\ r.loc = NoLocation THEN Append(messages, _showFailureMessage(commandName, "at the current position")) ELSE messages
    /\ UNCHANGED <<path, includeTypesOpt, includeAuthorTag, commandName, forCompletion>>

Next == documentThis

Spec == Init /\ [][Next]_vars

(***************************************************************************)
(* Reading the outcome of an invocation.                                   *)
(***************************************************************************)
Line(text) == [t |-> "line", s |-> text]

Text(text) == [t |-> "text", s |-> text]

Tabstop == [t |-> "tabstop", s |-> <<>>]

Succeeded == pc = "done" /\ Len(insertions) = 1

Anchor == insertions[1].range.end

Positions(fragment) == {i \in 1..Len(sb) : sb[i] = fragment}

Slots == {i \in 1..Len(sb) : sb[i].t \in {"tabstop", "placeholder"}}

\* the fragments at i, i + 1, .. are the given ones
Holds(i, fragments) == i + Len(fragments) - 1 <= Len(sb) /\ \A j \in 1..Len(fragments) : sb[i + j - 1] = fragments[j]

LocationOf(node) == getLineAndCharacterOfPosition(node.start)

\* the resolved node and, for the documented node, the chain above it
Resolved == path[documentNode(path)]

DocumentedAncestors ==
    IF \E k \in 1..Len(path) : path[k] = documented
    THEN SubSeq(path, 1, (CHOOSE k \in 1..Len(path) : path[k] = documented) - 1)
    ELSE SubSeq(path, 1, documentNode(path))

(***************************************************************************)
(* C1.  Returns section.                                                   *)
(***************************************************************************)
DeclaredNonVoid(node) == node.type # NoType /\ node.type # "void"

\* a return with a value among the statements or in a block among them
DirectValueReturn(stmts) ==
    \E i \in 1..Len(stmts) :
        \/ stmts[i] = ReturnValue
        \/ stmts[i].kind = "Block" /\ \E j \in 1..Len(stmts[i].inner) : stmts[i].inner[j] = ReturnValue

ReturnsSection(i) == Holds(i, <<Line(<<>>), Line(<<"Returns:">>), Text(<<"\t">>), Tabstop, Line(<<>>)>>)

\* C1: the output for a function/method declaration or signature, function
\* expression or arrow function holds one Returns section with one slot
\* exactly when the declared return type is not void or a return with a
\* value stands directly in the body, and none otherwise; the output for a
\* constructor holds none.
C1_ReturnsIff ==
    (pc = "done" /\ IsCallable(documented.kind)) =>
        /\ \A i \in Positions(Line(<<"Returns:">>)) : i > 1 /\ ReturnsSection(i - 1)
        /\ Cardinality(Positions(Line(<<"Returns:">>))) =
               IF documented.kind # "Constructor" /\ (DeclaredNonVoid(documented) \/ DirectValueReturn(documented.body)) THEN 1 ELSE 0

\* a function declared void got the section for the value return in a block
\* of its body
C1_Witness ==
    /\ Succeeded
    /\ documented.kind = "FunctionDeclaration"
    /\ documented.type = "void"
    /\ documented.body = <<Statement("FunctionDeclaration", FALSE, <<ReturnValue>>), Statement("Block", FALSE, <<ReturnValue>>)>>
    /\ Positions(Line(<<"Returns:">>)) # {}

(***************************************************************************)
(* C4.  Parameter section.                                                 *)
(***************************************************************************)
ParameterLine(i, name) == Holds(i, <<Text(<<"\t- ">>), Text(<<name>>), Text(<<" - ">>), Tabstop, Line(<<>>)>>)

\* C4: the output for a callable without parameters holds no Parameters
\* header and no bulleted line; with n parameters it holds one header, after
\* a blank line, followed by n bulleted lines, one per parameter in
\* declaration order, each ending in its own slot.
C4_ParameterSection ==
    (pc = "done" /\ IsCallable(documented.kind)) =>
        LET n == Len(documented.parameters)
            headers == Positions(Line(<<"Parameters:">>))
        IN /\ Cardinality(Positions(Text(<<"\t- ">>))) = n
           /\ Cardinality(headers) = IF n = 0 THEN 0 ELSE 1
           /\ \A h \in headers :
                 /\ h > 1 /\ sb[h - 1] = Line(<<>>)
                 /\ \A j \in 1..n : ParameterLine(h + 1 + 5 * (j - 1), documented.parameters[j])

C4_Witness ==
    /\ Succeeded
    /\ documented.kind = "Constructor"
    /\ documented.parameters = <<"{ b, c }", "a">>
    /\ Cardinality(Positions(Line(<<"Parameters:">>))) = 1

(***************************************************************************)
(* C9.  Modifier lines.                                                    *)
(***************************************************************************)
Marker(kind) ==
    CASE kind = "ExportKeyword" -> Line(<<"@export">>)
      [] kind = "AbstractKeyword" -> Line(<<"@abstract">>)
      [] kind = "ProtectedKeyword" -> Line(<<"@protected">>)
      [] kind = "PrivateKeyword" -> Line(<<"@private">>)
      [] kind = "StaticKeyword" -> Line(<<"@static">>)

Recognized(kind) == kind \in {"ExportKeyword", "AbstractKeyword", "ProtectedKeyword", "PrivateKeyword", "StaticKeyword"}

IsMarker(fragment) == \E kind \in {"ExportKeyword", "AbstractKeyword", "ProtectedKeyword", "PrivateKeyword", "StaticKeyword"} : fragment = Marker(kind)

\* C9: the marker lines of the output for a declaration that has the
\* modifier rule are the recognized modifiers of the declaration, one line
\* each, in the order of the declaration; the other modifiers add no line
\* and do not end the list.
C9_ModifierLines ==
    (pc = "done" /\ HasModifiers(documented.kind)) =>
        LET recognized == SelectSeq(documented.modifiers, Recognized)
            markers == SelectSeq(sb, IsMarker)
        IN /\ Len(markers) = Len(recognized)
           /\ \A i \in 1..Len(recognized) : markers[i] = Marker(recognized[i])

C9_Witness ==
    /\ Succeeded
    /\ documented.kind = "MethodDeclaration"
    /\ documented.modifiers = <<"AsyncKeyword", "StaticKeyword">>
    /\ SelectSeq(sb, IsMarker) = <<Line(<<"@static">>)>>

(***************************************************************************)
(* C2.  Heritage and type-parameter lines under includeTypes = false.      *)
(***************************************************************************)
HeritageLines == {i \in 1..Len(sb) : sb[i].t = "text" /\ Len(sb[i].s) > 0 /\ sb[i].s[1] \in {"@extends", "@implements"}}

TemplateLines == {i \in 1..Len(sb) : sb[i].t = "text" /\ Len(sb[i].s) > 0 /\ sb[i].s[1] = "@template "}

SettersFor(node, parent) == {i \in 1..Len(parent.members) : parent.members[i].kind = "SetAccessor" /\ parent.members[i].identifiers[1] = node.identifiers[1]}

C3_WitnessSetter ==
    /\ Succeeded
    /\ documented.kind = "GetAccessor"
    /\ SettersFor(documented, Last(DocumentedAncestors)) # {}
    /\ Positions(Line(<<"@readonly">>)) = {}

(***************************************************************************)
(* C6.  The first placeholder.                                             *)
(***************************************************************************)
DescriptionHeaders == {i \in 1..Len(sb) : Holds(i, <<Line(<<>>), Line(<<>>), Tabstop, Line(<<>>)>>)}

\* C6: a successful output for a class, interface, enum, property/accessor,
\* method/function or function expression holds the description header
\* once, and the header's tabstop is the first placeholder appended; the
\* first placeholder of a constructor is the pre-filled "Creates an instance
\* of <class>." slot; the output for an enum member holds no placeholder.
C6_FirstPlaceholder ==
    Succeeded =>
        CASE documented.kind = "Constructor" ->
               /\ DescriptionHeaders = {}
               /\ sb[1] = [t |-> "placeholder", s |-> <<"Creates an instance of ", Last(DocumentedAncestors).name, ".">>]
          [] documented.kind = "EnumMember" -> Slots = {}
          [] OTHER ->
               /\ Cardinality(DescriptionHeaders) = 1
               /\ \A i \in DescriptionHeaders : sb[i + 2] = Tabstop /\ \A k \in Slots : k >= i + 2

\* a method with the author tag, a type parameter, a parameter and a Returns
\* section: five placeholders, the description's first
C6_Witness ==
    /\ Succeeded
    /\ includeAuthorTag
    /\ documented.kind = "MethodDeclaration"
    /\ Cardinality(Slots) = 5
    /\ Cardinality(DescriptionHeaders) = 1

(***************************************************************************)
(* C7.  The anchor.                                                        *)
(***************************************************************************)
VariableKinds == {"VariableDeclarationList", "VariableDeclaration"}

\* the places of the variable declarations (lists) above the documented node
EnclosingVariables == {k \in 1..Len(DocumentedAncestors) : DocumentedAncestors[k].kind \in VariableKinds}

\* C7 as stated: the anchor of a documented function expression or arrow
\* function is the start of an enclosing variable declaration and not the
\* start of the function; the anchor of any other kind is the start of the
\* documented node.
C7_Original ==
    Succeeded =>
        IF documented.kind \in FunctionKinds
        THEN /\ \E k \in EnclosingVariables : Anchor = LocationOf(DocumentedAncestors[k])
             /\ Anchor # LocationOf(documented)
        ELSE Anchor = LocationOf(documented)

\* C7 amended: the anchor of a documented function expression or arrow
\* function is the start of its parent when the parent is a property
\* assignment, a binary expression or a property declaration, and otherwise
\* the start of the nearest variable declaration or declaration list above
\* its parent; the anchor of any other kind is the start of the documented
\* node.
C7_Anchor ==
    Succeeded =>
        IF documented.kind \in FunctionKinds
        THEN LET parent == Last(DocumentedAncestors)
                 above == {k \in EnclosingVariables : k < Len(DocumentedAncestors)}
             IN IF parent.kind \in {"PropertyAssignment", "BinaryExpression", "PropertyDeclaration"}
                THEN Anchor = LocationOf(parent)
                ELSE above # {} /\ \A k \in above : (\A m \in above : m <= k) => Anchor = LocationOf(DocumentedAncestors[k])
        ELSE Anchor = LocationOf(documented)

\* a function in a property assignment inside a variable declaration is
\* anchored at the assignment
C7_Witness ==
    /\ Succeeded
    /\ documented.kind = "ArrowFunction"
    /\ Last(DocumentedAncestors).kind = "PropertyAssignment"
    /\ EnclosingVariables # {}
    /\ Anchor = LocationOf(Last(DocumentedAncestors))
    /\ \A k \in EnclosingVariables : Anchor # LocationOf(DocumentedAncestors[k])

(***************************************************************************)
(* C10.  Variable declarations.                                            *)
(***************************************************************************)
Yielding == {i \in 1..Len(calls) : calls[i].loc # NoLocation}

\* C10: documenting a variable declaration dispatches its children in
\* order up to the first that yields an anchor; that anchor is the result;
\* a child that yields none has appended nothing; when none yields, every
\* child was dispatched, the result is none and the builder is empty; what
\* the builder holds was appended by the one child that yielded.
C10_FirstChild ==
    (pc # "ready" /\ documentNode(path) # 0 /\ Resolved.kind = "VariableDeclaration") =>
        /\ pc = "done"
        /\ Len(calls) <= Len(Resolved.children)
        /\ \A i \in 1..Len(calls) :
              /\ calls[i].child = i
              /\ calls[i].kind = Resolved.children[i].kind
              /\ calls[i].loc = NoLocation => calls[i].after = calls[i].before
        /\ Yielding \subseteq {Len(calls)}
        /\ IF Yielding = {}
           THEN Len(calls) = Len(Resolved.children) /\ insertions = <<>> /\ Len(messages) = 1 /\ sb = <<>>
           ELSE /\ Succeeded
                /\ Anchor = calls[Len(calls)].loc
                /\ calls[Len(calls)].before = 0
                /\ calls[Len(calls)].after = Len(sb)
                /\ documented = Resolved.children[Len(calls)]

\* five children, the function the last
C10_Witness ==
    /\ Succeeded
    /\ Resolved.kind = "VariableDeclaration"
    /\ Len(Resolved.children) = 5
    /\ Yielding = {5}

\* an initializer that is no function: every child dispatched, none yields
C10_WitnessNone ==
    /\ pc = "done"
    /\ documentNode(path) # 0
    /\ Resolved.kind = "VariableDeclaration"
    /\ Len(calls) = 3
    /\ Yielding = {}

(***************************************************************************)
(* C5, C8.  How an invocation ends.                                        *)
(***************************************************************************)
Failure == <<"Sorry! '", commandName, "' wasn't able to produce documentation ", "at the current position", ".">>

\* C5 as stated: an invocation ends in one insertion or in one failure
\* message, never both and never neither; the message names the command and
\* says "at the current position", and with it nothing was inserted and
\* nothing is in the builder.
C5_InsertionOrFailure ==
    pc # "ready" =>
        /\ Len(insertions) + Len(messages) = 1
        /\ messages # <<>> => (messages = <<Failure>> /\ insertions = <<>> /\ sb = <<>>)
        /\ insertions # <<>> => documented # NoNode

AnonymousClass == Resolved.kind = "ClassDeclaration" /\ Resolved.name = NoName

InAnonymousClass == Resolved.kind = "Constructor" /\ path[documentNode(path) - 1].name = NoName

\* C8 as stated: for a class without a name, or a constructor in a class
\* without a name, the invocation still ends with output and an anchor.
C8_Degrades == (pc # "ready" /\ documentNode(path) # 0 /\ (AnonymousClass \/ InAnonymousClass)) => (Succeeded /\ sb # <<>>)

====
